---- MODULE Spec2Model ----
(***************************************************************************)
(* Model of the GapBuffer class of simple_text_editor.py and of the editor *)
(* handlers that drive it.  The buffer object is one record-valued         *)
(* variable; every method is an operator from the object (self) to the     *)
(* object after the call and the value returned.                           *)
(*                                                                         *)
(* A Python list of one-character strings is a sequence of strings.  The   *)
(* padding that _expand_gap writes into start_buffer is the empty string   *)
(* "", which ''.join() contributes nothing for.  A text (the result of     *)
(* get_text) is the sequence of its characters.                            *)
(***************************************************************************)
EXTENDS Integers, Sequences, FiniteSets, TLC

\* ---------------------------------------------------------------- bounds
\* Largest number of list cells (start_buffer plus end_buffer) explored.
MaxLen == 5
\* Longest initial_text handed to the constructor.
MaxInit == 2
\* Largest buffer_size handed to the constructor (the code's default is
\* 1000; the model explores the small sizes where growth happens early).
MaxHint == 2

\* Largest gap_length explored (move_cursor_left followed by delete_forward
\* raises it by two for one character, so it has no bound of its own).
MaxGap == 4

\* Characters a key press can deliver (len(event.char) == 1).
Chars == {"a", "b"}
\* Python's None, as returned by delete and delete_forward.
None == "None"
\* Targets handed to move_cursor_to: in range, and one step out on each side.
Positions == (0 - 1) .. (MaxLen + 1)

\* All sequences over S of length at most n.
SeqsUpTo(S, n) == UNION {[1..k -> S] : k \in 0..n}

\* ------------------------------------------------------ list primitives
\* [' '] * n: the padding written as blanks.
PadBlank(n) == [i \in 1..n |-> " "]

\* [''] * n
Pad(n) == [i \in 1..n |-> ""]
\* list.pop(): the list without its last element.
DropLast(s) == SubSeq(s, 1, Len(s) - 1)
\* list.pop() return value.
Last(s) == s[Len(s)]

\* ''.join(list): the characters of every element, in order.  An element
\* that is the empty string has no characters.
RECURSIVE join(_)
join(s) ==
  IF s = <<>> THEN <<>>
  ELSE (IF Head(s) = "" THEN <<>> ELSE <<Head(s)>>) \o join(Tail(s))

\* --------------------------------------------------------- GapBuffer
\* GapBuffer.__init__(initial_text, buffer_size)
GapBuffer(initial_text, buffer_size) ==
  [buffer_size  |-> buffer_size,
   start_buffer |-> initial_text,
   gap_index    |-> Len(initial_text),
   gap_length   |-> buffer_size - Len(initial_text),
   end_buffer   |-> <<>>]

get_text(self) == join(self.start_buffer \o self.end_buffer)

get_cursor_position(self) == self.gap_index

get_stats(self) ==
  [start_length |-> Len(self.start_buffer),
   gap_length   |-> self.gap_length,
   end_length   |-> Len(self.end_buffer),
   total_size   |-> self.buffer_size,
   cursor_pos   |-> self.gap_index]

\* _expand_gap that also advances gap_index past the cells it adds.
expand_gap_moves_index(self) ==
  LET new_buffer_size == self.buffer_size * 2
      new_start == self.start_buffer \o Pad(new_buffer_size - self.buffer_size)
  IN [self EXCEPT !.start_buffer = new_start,
                  !.gap_index = @ + (new_buffer_size - self.buffer_size),
                  !.gap_length = @ + (new_buffer_size - self.buffer_size),
                  !.buffer_size = new_buffer_size]

expand_gap(self) ==
  LET new_buffer_size == self.buffer_size * 2
      new_start == self.start_buffer \o Pad(new_buffer_size - self.buffer_size)
  IN [self EXCEPT !.start_buffer = new_start,
                  !.gap_length = @ + (new_buffer_size - self.buffer_size),
                  !.buffer_size = new_buffer_size]

insert(self, char) ==
  LET s == IF self.gap_length = 0 THEN expand_gap(self) ELSE self
  IN [self |-> [s EXCEPT !.start_buffer = Append(@, char),
                         !.gap_index = @ + 1,
                         !.gap_length = @ - 1],
      ret  |-> None]

\* delete with its guard written on the list, "if self.start_buffer:",
\* instead of on gap_index.
delete_guard_on_list(self) ==
  IF self.start_buffer # <<>>
  THEN [self |-> [self EXCEPT !.gap_index = @ - 1,
                              !.gap_length = @ + 1,
                              !.start_buffer = DropLast(@)],
        ret  |-> Last(self.start_buffer)]
  ELSE [self |-> self, ret |-> None]

delete(self) ==
  IF self.gap_index > 0
  THEN [self |-> [self EXCEPT !.gap_index = @ - 1,
                              !.gap_length = @ + 1,
                              !.start_buffer = DropLast(@)],
        ret  |-> Last(self.start_buffer)]
  ELSE [self |-> self, ret |-> None]

delete_forward(self) ==
  IF self.end_buffer # <<>>
  THEN [self |-> [self EXCEPT !.gap_length = @ + 1,
                              !.end_buffer = Tail(@)],
        ret  |-> Head(self.end_buffer)]
  ELSE [self |-> self, ret |-> None]

\* move_cursor_left without its "self.gap_index -= 1".
move_cursor_left_keeps_index(self) ==
  IF self.gap_index > 0
  THEN [self EXCEPT !.gap_length = @ + 1,
                    !.start_buffer = DropLast(@),
                    !.end_buffer = <<Last(self.start_buffer)>> \o @]
  ELSE self

move_cursor_left(self) ==
  IF self.gap_index > 0
  THEN [self EXCEPT !.gap_index = @ - 1,
                    !.gap_length = @ + 1,
                    !.start_buffer = DropLast(@),
                    !.end_buffer = <<Last(self.start_buffer)>> \o @]
  ELSE self

\* move_cursor_right taking end_buffer.pop() (the last cell) instead of
\* end_buffer.pop(0).
move_cursor_right_pops_last(self) ==
  IF self.end_buffer # <<>>
  THEN [self EXCEPT !.gap_length = @ - 1,
                    !.gap_index = @ + 1,
                    !.end_buffer = DropLast(@),
                    !.start_buffer = Append(@, Last(self.end_buffer))]
  ELSE self

\* move_cursor_right with its two counter updates written before the
\* "if self.end_buffer:" instead of under it.
move_cursor_right_counts_always(self) ==
  LET s == [self EXCEPT !.gap_length = @ - 1, !.gap_index = @ + 1]
  IN IF self.end_buffer # <<>>
     THEN [s EXCEPT !.end_buffer = Tail(@),
                    !.start_buffer = Append(@, Head(self.end_buffer))]
     ELSE s

move_cursor_right(self) ==
  IF self.end_buffer # <<>>
  THEN [self EXCEPT !.gap_length = @ - 1,
                    !.gap_index = @ + 1,
                    !.end_buffer = Tail(@),
                    !.start_buffer = Append(@, Head(self.end_buffer))]
  ELSE self

\* --------------------------------------------------------------- state
VARIABLES
  gap_buffer,  \* SimpleTextEditor.gap_buffer, the GapBuffer object
  pc,          \* "idle", or the branch of move_cursor_to that is looping
  op,          \* the method called last
  args,        \* the arguments of that call
  ret,         \* the value that call returned
  pre,         \* the GapBuffer object when that call was made
  hist         \* what the calls before the last one were (see Record)

vars == <<gap_buffer, pc, op, args, ret, pre, hist>>

\* The parameters of the last call, by the names the code gives them.
initial_text == args[1]
buffer_size == args[2]
char == args[1]
position == args[1]

\* The number of list cells the object holds.
Cells(self) == Len(self.start_buffer) + Len(self.end_buffer)

\* The record of call sequences.  It remembers
\*   only_inserts, typed: whether the buffer was constructed empty and has
\*     seen nothing but insert since, and the characters inserted;
\*   undo: when the last two calls were insert(c) and then delete, the
\*     object before that insert and c;
\*   base, lefts, rights: when the last calls were lefts effective
\*     move_cursor_left and then rights <= lefts move_cursor_right, the
\*     object before the first of them.
NoRun == [base |-> <<>>, lefts |-> 0, rights |-> 0]

Record(name, a) ==
  LET inserts == hist.only_inserts /\ name = "insert"
      run ==
        IF name = "move_cursor_left" /\ gap_buffer.gap_index > 0
        THEN IF hist.base # <<>> /\ hist.rights = 0
             THEN [base |-> hist.base, lefts |-> hist.lefts + 1, rights |-> 0]
             ELSE [base |-> <<gap_buffer>>, lefts |-> 1, rights |-> 0]
        ELSE IF name = "move_cursor_right" /\ hist.base # <<>>
                  /\ hist.rights < hist.lefts
             THEN [base |-> hist.base, lefts |-> hist.lefts,
                   rights |-> hist.rights + 1]
             ELSE NoRun
  IN [only_inserts |-> inserts,
      typed        |-> IF inserts THEN Append(hist.typed, a[1]) ELSE <<>>,
      undo         |-> IF name = "delete" /\ op = "insert"
                       THEN <<pre, args[1]>> ELSE <<>>,
      base         |-> run.base,
      lefts        |-> run.lefts,
      rights       |-> run.rights]

\* GapBuffer(initial_text, buffer_size): the editor starts on a fresh buffer
\* (SimpleTextEditor.__init__, new_file, open_file).
Init ==
  /\ \E text \in SeqsUpTo(Chars, MaxInit), size \in 0..MaxHint :
       /\ gap_buffer = GapBuffer(text, size)
       /\ args = <<text, size>>
  /\ pc = "idle"
  /\ op = "__init__"
  /\ ret = None
  /\ pre = gap_buffer
  /\ hist = [only_inserts |-> (gap_buffer.start_buffer = <<>>),
             typed |-> <<>>, undo |-> <<>>,
             base |-> <<>>, lefts |-> 0, rights |-> 0]

\* A call of a method that runs to completion in one step.
Call(name, a, result) ==
  /\ pc = "idle"
  /\ Cells(result.self) <= MaxLen
  /\ result.self.gap_length <= MaxGap
  /\ gap_buffer' = result.self
  /\ ret' = result.ret
  /\ op' = name
  /\ args' = a
  /\ pre' = gap_buffer
  /\ pc' = "idle"
  /\ hist' = Record(name, a)

\* on_key_press, regular character
Insert == \E c \in Chars : Call("insert", <<c>>, insert(gap_buffer, c))

\* on_key_press, BackSpace
Delete == Call("delete", <<>>, delete(gap_buffer))

\* on_key_press, Delete
DeleteForward == Call("delete_forward", <<>>, delete_forward(gap_buffer))

\* on_key_press, Left
MoveCursorLeft ==
  Call("move_cursor_left", <<>>,
       [self |-> move_cursor_left(gap_buffer), ret |-> None])

\* on_key_press, Right
MoveCursorRight ==
  Call("move_cursor_right", <<>>,
       [self |-> move_cursor_right(gap_buffer), ret |-> None])

\* move_cursor_to(position), up to the choice of the branch.  Home calls it
\* with 0, End with len(get_text()), a mouse click with the clicked index.
MoveCursorTo ==
  /\ pc = "idle"
  /\ \E p \in Positions :
       LET current_pos == gap_buffer.gap_index
       IN /\ args' = <<p>>
          /\ pc' = IF p < current_pos THEN "left"
                   ELSE IF p > current_pos THEN "right"
                   ELSE "idle"
  /\ op' = "move_cursor_to"
  /\ ret' = None
  /\ pre' = gap_buffer
  /\ hist' = Record("move_cursor_to", <<>>)
  /\ UNCHANGED gap_buffer

\* One test of "while self.gap_index > position" and the body it guards.
MoveLoopLeft ==
  /\ pc = "left"
  /\ IF gap_buffer.gap_index > position
     THEN /\ gap_buffer' = move_cursor_left(gap_buffer)
          /\ pc' = "left"
     ELSE /\ pc' = "idle"
          /\ UNCHANGED gap_buffer
  /\ UNCHANGED <<op, args, ret, pre, hist>>

\* One test of "while self.gap_index < position" and the body it guards.
MoveLoopRight ==
  /\ pc = "right"
  /\ IF gap_buffer.gap_index < position
     THEN /\ gap_buffer' = move_cursor_right(gap_buffer)
          /\ pc' = "right"
     ELSE /\ pc' = "idle"
          /\ UNCHANGED gap_buffer
  /\ UNCHANGED <<op, args, ret, pre, hist>>

Next ==
  \/ Insert
  \/ Delete
  \/ DeleteForward
  \/ MoveCursorLeft
  \/ MoveCursorRight
  \/ MoveCursorTo
  \/ MoveLoopLeft
  \/ MoveLoopRight

Spec == Init /\ [][Next]_vars

\* The editor is single-threaded and a call runs until it returns: a loop
\* of move_cursor_to that can take an iteration takes it.
FairSpec == Spec /\ WF_vars(MoveLoopLeft) /\ WF_vars(MoveLoopRight)

\* The last call has returned.
Returned == pc = "idle"

\* The text and the cursor now, and when the last call was made.
text == get_text(gap_buffer)
cursor == get_cursor_position(gap_buffer)
t == get_text(pre)
p == get_cursor_position(pre)

\* Python's s[i:j] for 0 <= i <= j <= len(s).
Slice(s, i, j) == SubSeq(s, i + 1, j)

Max(x, y) == IF x >= y THEN x ELSE y
Min(x, y) == IF x <= y THEN x ELSE y

\* ------------------------------------------------------------- claims

\* C1: in every reachable state the cursor (get_cursor_position) equals the
\* length of the before segment (start_length of get_stats).
C1_CursorIsStartLength ==
  get_cursor_position(gap_buffer) = get_stats(gap_buffer).start_length

\* C2: in every reachable state 0 <= get_cursor_position() <= len(get_text()).
C2_CursorBound == 0 <= cursor /\ cursor <= Len(text)

\* C2 witness: growth has padded start_buffer, an edit has run since, and
\* the cursor sits at the very end of a non-empty text.
C2_Witness ==
  /\ Returned
  /\ op \in {"insert", "delete", "move_cursor_right"}
  /\ Len(gap_buffer.start_buffer) > cursor
  /\ cursor = Len(text)
  /\ cursor > 0

\* C3: in every reachable state the reserve capacity gap_length is >= 0.
C3_ReserveNonNegative == gap_buffer.gap_length >= 0

\* C4: insert(c) at text t and cursor p gives the text t[0:p] + c + t[p:]
\* and the cursor p + 1.
C4_InsertAtCursor ==
  op = "insert" =>
    /\ text = Slice(t, 0, p) \o <<char>> \o Slice(t, p, Len(t))
    /\ cursor = p + 1

\* C5: insert lengthens the text by exactly 1; a delete or delete_forward
\* that returns a value shortens it by exactly 1; one that returns None
\* leaves its length unchanged.
C5_LengthConservation ==
  /\ op = "insert" => Len(text) = Len(t) + 1
  /\ op \in {"delete", "delete_forward"} =>
       IF ret # None THEN Len(text) = Len(t) - 1 ELSE Len(text) = Len(t)

\* A move_cursor_to call whose target lies within the text.
InRange == op = "move_cursor_to" /\ 0 <= position /\ position <= Len(t)

\* A move_cursor_to call whose target lies outside the text.
OutOfRange == op = "move_cursor_to" /\ (position < 0 \/ position > Len(t))

\* C6: move_cursor_to(target) with 0 <= target <= len(get_text()) returns,
\* and then the cursor is target and the text is unchanged.
C6_MoveToInRange ==
  InRange ~> (InRange /\ Returned /\ cursor = position /\ text = t)

\* C7: move_cursor_to(target) with target outside [0, len(get_text())]
\* returns, and then the cursor is target clamped into that interval and
\* the text is unchanged.
C7_MoveToClamped ==
  OutOfRange ~>
    (OutOfRange /\ Returned /\ text = t
       /\ cursor = Max(0, Min(position, Len(t))))

\* C8: right after GapBuffer(initial_text, buffer_size) the text is
\* initial_text, end_buffer is empty, the cursor is len(initial_text) and
\* gap_length is max(0, buffer_size - len(initial_text)).
C8_Construct ==
  op = "__init__" =>
    /\ text = initial_text
    /\ gap_buffer.end_buffer = <<>>
    /\ cursor = Len(initial_text)
    /\ gap_buffer.gap_length = Max(0, buffer_size - Len(initial_text))

\* C9: delete_forward at text t and cursor p: if p < len(t) it returns t[p],
\* the text becomes t[0:p] + t[p+1:], the cursor stays p and gap_length
\* grows by 1; if p == len(t) it returns None and changes nothing.
C9_DeleteForward ==
  op = "delete_forward" =>
    IF p < Len(t)
    THEN /\ ret = t[p + 1]
         /\ text = Slice(t, 0, p) \o Slice(t, p + 1, Len(t))
         /\ cursor = p
         /\ gap_buffer.gap_length = pre.gap_length + 1
    ELSE /\ ret = None
         /\ gap_buffer = pre

\* C10: delete at text t and cursor p > 0 returns the character t[p-1], the
\* text becomes t[0:p-1] + t[p:], the cursor becomes p - 1 and gap_length
\* grows by 1.
C10_DeleteBackward ==
  (op = "delete" /\ p > 0) =>
    /\ ret = t[p]
    /\ ret \in Chars
    /\ text = Slice(t, 0, p - 1) \o Slice(t, p, Len(t))
    /\ cursor = p - 1
    /\ gap_buffer.gap_length = pre.gap_length + 1

\* C14: capacity growth (_expand_gap, run by insert when gap_length == 0)
\* changes neither get_text() nor the cursor, and alters neither
\* start_buffer nor end_buffer.
C14_GrowthPreservesContent ==
  (op = "insert" /\ pre.gap_length = 0) =>
    LET grown == expand_gap(pre)
    IN /\ get_text(grown) = t
       /\ get_cursor_position(grown) = p
       /\ grown.start_buffer = pre.start_buffer
       /\ grown.end_buffer = pre.end_buffer

\* C15: delete at cursor 0, delete_forward on an empty end_buffer,
\* move_cursor_left at cursor 0 and move_cursor_right on an empty end_buffer
\* leave the whole object unchanged, and the two deletions return None.
C15_BoundaryNoOps ==
  /\ (op = "delete" /\ p = 0) => (ret = None /\ gap_buffer = pre)
  /\ (op = "delete_forward" /\ pre.end_buffer = <<>>) =>
       (ret = None /\ gap_buffer = pre)
  /\ (op = "move_cursor_left" /\ p = 0) => gap_buffer = pre
  /\ (op = "move_cursor_right" /\ pre.end_buffer = <<>>) => gap_buffer = pre

\* C15 witness: move_cursor_right was called with nothing after the cursor,
\* on a buffer that holds text and has reserve left.
C15_Witness ==
  /\ op = "move_cursor_right"
  /\ pre.end_buffer = <<>>
  /\ Len(t) > 0
  /\ pre.gap_length > 0

\* C16: move_cursor_right sets the cursor to p + 1 whenever p < len(t) and
\* is a no-op only when p == len(t); move_cursor_left sets it to p - 1
\* whenever p > 0 and is a no-op only when p == 0; neither changes the text.
C16_SingleMoves ==
  /\ op = "move_cursor_right" =>
       /\ text = t
       /\ IF p < Len(t) THEN cursor = p + 1 ELSE gap_buffer = pre
  /\ op = "move_cursor_left" =>
       /\ text = t
       /\ IF p > 0 THEN cursor = p - 1 ELSE gap_buffer = pre

\* C17: move_cursor_left, move_cursor_right and move_cursor_to leave
\* gap_length and buffer_size unchanged.
C17_MovesKeepReserve ==
  op \in {"move_cursor_left", "move_cursor_right", "move_cursor_to"} =>
    /\ gap_buffer.gap_length = pre.gap_length
    /\ gap_buffer.buffer_size = pre.buffer_size

\* C18: growth runs exactly when insert is called with gap_length == 0 and
\* at no other time; it doubles buffer_size, leaves gap_length at least the
\* previous buffer_size, and the insert that triggered it ends with
\* gap_length >= 0.
C18_GrowthPolicy ==
  /\ (op = "insert" /\ pre.gap_length = 0) =>
       /\ gap_buffer.buffer_size = 2 * pre.buffer_size
       /\ expand_gap(pre).gap_length >= pre.buffer_size
       /\ gap_buffer.gap_length >= 0
  /\ ~(op = "insert" /\ pre.gap_length = 0) =>
       gap_buffer.buffer_size = pre.buffer_size

\* C19: in every reachable state len(start_buffer) >= gap_index, so the
\* pop() that delete and move_cursor_left guard by gap_index > 0 never runs
\* on an empty list.
C19_PopIsSafe ==
  /\ Len(gap_buffer.start_buffer) >= gap_buffer.gap_index
  /\ gap_buffer.gap_index > 0 => gap_buffer.start_buffer # <<>>

\* C19 witness: move_cursor_left popped the only cell of start_buffer.
C19_Witness ==
  /\ op = "move_cursor_left"
  /\ Returned
  /\ p = 1
  /\ Len(pre.start_buffer) = 1
  /\ gap_buffer.start_buffer = <<>>

\* Buffers constructed with buffer_size >= len(initial_text).
InitFit == Init /\ buffer_size >= Len(initial_text)

SpecFit == InitFit /\ [][Next]_vars

\* C20: for a buffer constructed with buffer_size >= len(initial_text), in
\* every reachable state total_size == len(get_text()) + gap_length.
C20_GapAccounting ==
  get_stats(gap_buffer).total_size
    = Len(text) + get_stats(gap_buffer).gap_length

\* C11: insert(c) immediately followed by delete returns c and restores
\* get_text() and get_cursor_position() to their values before the insert,
\* whether or not the insert grew the buffer.
C11_InsertThenDelete ==
  hist.undo # <<>> =>
    /\ ret = hist.undo[2]
    /\ text = get_text(hist.undo[1])
    /\ cursor = get_cursor_position(hist.undo[1])

\* C11 witness: the insert that was undone had to grow the buffer, in the
\* middle of a text.
C11_Witness ==
  /\ hist.undo # <<>>
  /\ op = "delete"
  /\ hist.undo[1].gap_length = 0
  /\ hist.undo[1].buffer_size > 0
  /\ hist.undo[1].end_buffer # <<>>

\* C12: from GapBuffer("", buffer_size), after inserts c1..cn and no other
\* call, get_text() == c1 c2 ... cn and the cursor is n.
C12_InsertsRoundTrip ==
  hist.only_inserts =>
    /\ text = hist.typed
    /\ cursor = Len(hist.typed)

\* C12 witness: three inserts in a row into an empty buffer, the last of
\* which grew it.
C12_Witness ==
  /\ hist.only_inserts
  /\ Len(hist.typed) = 3
  /\ pre.gap_length = 0
  /\ gap_buffer.buffer_size > pre.buffer_size

\* C13: k <= p calls of move_cursor_left followed by k calls of
\* move_cursor_right, with no other call in between, restore get_text()
\* and get_cursor_position().
C13_MoveAndReturn ==
  (hist.base # <<>> /\ hist.rights = hist.lefts) =>
    /\ text = get_text(hist.base[1])
    /\ cursor = get_cursor_position(hist.base[1])

\* C13 witness: two moves left and two back, over two different characters.
C13_Witness ==
  /\ hist.base # <<>>
  /\ hist.lefts = 2
  /\ hist.rights = 2
  /\ op = "move_cursor_right"
  /\ gap_buffer.start_buffer[cursor] \in Chars
  /\ gap_buffer.start_buffer[cursor - 1] \in Chars
  /\ gap_buffer.start_buffer[cursor] # gap_buffer.start_buffer[cursor - 1]
====
